---- MODULE Spec2Model ----
(***************************************************************************)
(* LayeredBitmap (src/LayeredBitmap.py): a tree of BitmapCore nodes over   *)
(* the positions 0 .. bitmap_size^num_layers - 1.                          *)
(*                                                                         *)
(* A node is addressed by the sequence of child slots that leads to it     *)
(* from base_bitmap (the root is <<>>); a Python reference to a node is    *)
(* that sequence and Python's None is the value None below.  A bitmap (a   *)
(* Python int of arbitrary precision) is the set of the indices of its     *)
(* one bits; `children` is the set of slots that hold a node.              *)
(***************************************************************************)
EXTENDS Integers, Sequences, FiniteSets, TLC

VARIABLES
    constructed,   \* TRUE once LayeredBitmap.__init__ has returned a tree
    num_layers,    \* LayeredBitmap.num_layers
    bitmap_size,   \* LayeredBitmap.bitmap_size
    nodes,         \* the BitmapCore objects reachable from base_bitmap
    S,             \* history: the positions on which set() has succeeded
    last           \* the last call made and not yet returned from: operation,
                   \* argument, outcome, result; for set, the nodes it created
                   \* and whether its argument was a member already (repeat);
                   \* for a search, the parent hops and child hops it made

vars == <<constructed, num_layers, bitmap_size, nodes, S, last>>

-----------------------------------------------------------------------------
(* Bounds of the model and the inputs the calls are drawn from.            *)

\* At most this many distinct positions are inserted into one tree.
MaxMembers == 6

\* num_layers arguments tried on the constructor.
NumLayersInputs == {4, 5}

\* bitmap_size arguments tried on the constructor.
BitmapSizeInputs == {16, 32, 64}

RECURSIVE Pow(_, _)
Pow(b, e) == IF e <= 0 THEN 1 ELSE b * Pow(b, e - 1)

\* The universe size bitmap_size ** num_layers of a tree.
Universe(W, L) == Pow(W, L)

\* Positions offered to set(): the first leaf's ends, the first bit of the
\* second leaf, both sides of the first root-slot boundary, a position with
\* digits 1,..,1,1 below the root digit 1, the top position, and the two
\* nearest positions outside the range.
SetInputs(W, L) ==
    LET K == Pow(W, L - 1)
        U == Pow(W, L)
    IN  {-1, 0, 1, W - 1, W, K - 1, K, K + W + 1, U - 1, U}

\* Positions offered to get(), find_next() and find_previous().
QueryInputs(W, L) ==
    LET K == Pow(W, L - 1)
        U == Pow(W, L)
    IN  {-1, 0, 1, 2, W - 1, W, W + 1, K - 1, K, K + 1, K + W, K + W + 1,
         K + W + 2, 2 * K, U - 2, U - 1, U}

\* Start arguments offered to the traversals (0 is the default).
TraverseInputs(W, L) == {0, W}

-----------------------------------------------------------------------------
(* Python values.                                                          *)

\* Python's None, as a node reference: no slot sequence holds a negative slot.
None == <<-1>>

\* The reference of base_bitmap.
Root == <<>>

Min(T) == CHOOSE m \in T : \A n \in T : m <= n
Max(T) == CHOOSE m \in T : \A n \in T : m >= n

-----------------------------------------------------------------------------
(* class BitmapCore                                                        *)

\* BitmapCore(size, num_layers, bitmap=0b0): a fresh node.
BitmapCore(size, nl) ==
    [size |-> size, bitmap |-> {}, children |-> {}, parent |-> None,
     parent_index |-> 0, lower_bound |-> 0, layer |-> 0, num_layers |-> nl]

\* BitmapCore(size, num_layers, bitmap): a fresh node around a given word,
\* which __init__ takes when it is below 1 << size.
BitmapCore_word(size, nl, bitmap) ==
    [BitmapCore(size, nl) EXCEPT !.bitmap = bitmap]

\* set_bit raises IndexError for an index outside 0 .. size-1.
set_bit_raises(node, index) == index < 0 \/ index >= node.size

\* A set_bit that takes the value-0 branch: bitmap &= ~(1 << index).
set_bit_clear(node, index) == [node EXCEPT !.bitmap = @ \ {index}]

\* set_bit(index, 1): bitmap |= (1 << index).
set_bit(node, index) == [node EXCEPT !.bitmap = @ \cup {index}]

\* get_bit(index): (bitmap >> index) & 1.
get_bit(node, index) == IF index \in node.bitmap THEN 1 ELSE 0

\* q lies strictly below node c.
IsBelow(c, q) == Len(q) > Len(c) /\ SubSeq(q, 1, Len(c)) = c

\* An assign_child whose span exponent is one too large:
\* size**(num_layers - layer) in place of size**(num_layers - layer - 1).
assign_child_wide_span(ns, p, index, child) ==
    LET c     == Append(p, index)
        par   == ns[p]
        stamped ==
            [child EXCEPT
                !.parent = p,
                !.parent_index = index,
                !.layer = par.layer + 1,
                !.lower_bound = par.lower_bound
                    + index * Pow(par.size, par.num_layers - par.layer),
                !.num_layers = par.num_layers]
        keep  == {q \in DOMAIN ns : q # c /\ ~IsBelow(c, q)}
    IN  [q \in keep \cup {c} |->
            IF q = c THEN stamped
            ELSE IF q = p THEN [par EXCEPT !.children = @ \cup {index}]
            ELSE ns[q]]

\* parent.assign_child(index, child): the slot takes the child (whatever it
\* held before is no longer reachable), and the child is stamped with its
\* parent, parent_index, layer, lower_bound and num_layers.
assign_child(ns, p, index, child) ==
    LET c     == Append(p, index)
        par   == ns[p]
        stamped ==
            [child EXCEPT
                !.parent = p,
                !.parent_index = index,
                !.layer = par.layer + 1,
                !.lower_bound = par.lower_bound
                    + index * Pow(par.size, par.num_layers - par.layer - 1),
                !.num_layers = par.num_layers]
        keep  == {q \in DOMAIN ns : q # c /\ ~IsBelow(c, q)}
    IN  [q \in keep \cup {c} |->
            IF q = c THEN stamped
            ELSE IF q = p THEN [par EXCEPT !.children = @ \cup {index}]
            ELSE ns[q]]

\* node.children[index] with Python's list indexing: a negative index counts
\* from the end of the list.
children_at(ns, p, index) ==
    LET i == IF index < 0 THEN index + ns[p].size ELSE index
    IN  IF i \in ns[p].children THEN Append(p, i) ELSE None

-----------------------------------------------------------------------------
(* class LayeredBitmap: __init__, set, get                                 *)

\* LayeredBitmap.__init__: the error it raises, or "ok".
init_outcome(nl, size) ==
    IF nl < 5 /\ nl > 8 THEN "ValueError"
    ELSE IF size \notin {32, 64} THEN "ValueError"
    ELSE "ok"

\* A set() that attaches a fresh node whether or not the slot holds one.
slot_empty_always(ns, p, index) == TRUE

\* `if not node.children[index]`: the slot holds no node.
slot_empty(ns, p, index) == children_at(ns, p, index) = None

\* A loop of set() without the test `layer_index < self.num_layers-1`: it
\* attaches a child below the last layer too.
RECURSIVE set_loop_attach_at_leaf(_, _, _, _, _)
set_loop_attach_at_leaf(st, pos, L, W, layer_index) ==
    IF layer_index >= L THEN st
    ELSE
        LET chopper      == Pow(st.nodes[Root].size, L - layer_index - 1)
            pospos       == pos - st.offset_sofar
            relative_pos == pospos \div chopper
            t            == st.target
        IN  IF set_bit_raises(st.nodes[t], relative_pos)
            THEN [st EXCEPT !.outcome = "IndexError"]
            ELSE
                LET n1 == [st.nodes EXCEPT ![t] = set_bit(@, relative_pos)]
                    absent == slot_empty(n1, t, relative_pos)
                    n2 == IF absent
                          THEN assign_child(n1, t, relative_pos,
                                            BitmapCore(W, L))
                          ELSE n1
                IN  set_loop_attach_at_leaf(
                        [st EXCEPT
                            !.nodes = n2,
                            !.target = children_at(n2, t, relative_pos),
                            !.offset_sofar = @ + relative_pos * chopper,
                            !.created = @ + (IF absent THEN 1 ELSE 0)],
                        pos, L, W, layer_index + 1)

\* The loop of set() from layer_index on: st holds the nodes, the target
\* node, offset_sofar and the number of nodes created so far.
RECURSIVE set_loop(_, _, _, _, _)
set_loop(st, pos, L, W, layer_index) ==
    IF layer_index >= L THEN st
    ELSE
        LET chopper      == Pow(st.nodes[Root].size, L - layer_index - 1)
            pospos       == pos - st.offset_sofar
            relative_pos == pospos \div chopper
            t            == st.target
        IN  IF set_bit_raises(st.nodes[t], relative_pos)
            THEN [st EXCEPT !.outcome = "IndexError"]
            ELSE
                LET n1 == [st.nodes EXCEPT ![t] = set_bit(@, relative_pos)]
                IN  IF layer_index < L - 1
                    THEN
                        LET absent == slot_empty(n1, t, relative_pos)
                            n2 == IF absent
                                  THEN assign_child(n1, t, relative_pos,
                                                    BitmapCore(W, L))
                                  ELSE n1
                        IN  set_loop(
                                [st EXCEPT
                                    !.nodes = n2,
                                    !.target = children_at(n2, t, relative_pos),
                                    !.offset_sofar = @ + relative_pos * chopper,
                                    !.created = @ + (IF absent THEN 1 ELSE 0)],
                                pos, L, W, layer_index + 1)
                    ELSE set_loop([st EXCEPT !.nodes = n1], pos, L, W,
                                  layer_index + 1)

\* A range check that lets size**num_layers itself through.
set_out_of_range_off_by_one(ns, pos, L) ==
    pos < 0 \/ pos > Pow(ns[Root].size, L)

\* set() rejects a position outside 0 .. size**num_layers - 1.
set_out_of_range(ns, pos, L) == pos < 0 \/ pos >= Pow(ns[Root].size, L)

\* LayeredBitmap.set(pos): the outcome, the nodes after the call and the
\* number of BitmapCore objects the call created.  An exception leaves the
\* nodes as they were when it was raised.
set(ns, pos, L, W) ==
    IF set_out_of_range(ns, pos, L)
    THEN [outcome |-> "ValueError", nodes |-> ns, target |-> None,
          offset_sofar |-> 0, created |-> 0]
    ELSE
        LET chopper      == Pow(ns[Root].size, L - 1)
            relative_pos == pos \div chopper
        IN  IF set_bit_raises(ns[Root], relative_pos)
            THEN [outcome |-> "IndexError", nodes |-> ns, target |-> None,
                  offset_sofar |-> 0, created |-> 0]
            ELSE
                LET n1 == [ns EXCEPT ![Root] = set_bit(@, relative_pos)]
                    absent == slot_empty(n1, Root, relative_pos)
                    n2 == IF absent
                          THEN assign_child(n1, Root, relative_pos,
                                            BitmapCore(W, L))
                          ELSE n1
                IN  set_loop(
                        [outcome |-> "ok", nodes |-> n2,
                         target |-> children_at(n2, Root, relative_pos),
                         offset_sofar |-> relative_pos * chopper,
                         created |-> IF absent THEN 1 ELSE 0],
                        pos, L, W, 1)

\* The loop of get() from layer_index on.  (A loop that ends without a
\* return makes get() return None.)
RECURSIVE get_loop(_, _, _, _, _, _)
get_loop(ns, pos, L, target, offset_sofar, layer_index) ==
    IF layer_index >= L THEN [outcome |-> "None", ret |-> 0]
    ELSE
        LET chopper      == Pow(ns[Root].size, L - layer_index - 1)
            pospos       == pos - offset_sofar
            relative_pos == pospos \div chopper
        IN  IF layer_index < L - 1
            THEN IF children_at(ns, target, relative_pos) = None
                 THEN [outcome |-> "ok", ret |-> 0]
                 ELSE get_loop(ns, pos, L,
                               children_at(ns, target, relative_pos),
                               offset_sofar + relative_pos * chopper,
                               layer_index + 1)
            ELSE [outcome |-> "ok", ret |-> get_bit(ns[target], relative_pos)]

\* LayeredBitmap.get(pos).
get(ns, pos, L) ==
    IF pos < 0 \/ pos >= Pow(ns[Root].size, L)
    THEN [outcome |-> "ValueError", ret |-> 0]
    ELSE
        LET chopper      == Pow(ns[Root].size, L - 1)
            relative_pos == pos \div chopper
        IN  IF children_at(ns, Root, relative_pos) = None
            THEN [outcome |-> "ValueError", ret |-> 0]
            ELSE get_loop(ns, pos, L, children_at(ns, Root, relative_pos),
                          relative_pos * chopper, 1)

-----------------------------------------------------------------------------
(* class BitmapCore: the word-level scans                                  *)

\* A scan whose mask keeps the bit at index pos - 1 itself.
find_next_bm_inclusive(b, pos) ==
    LET masked_b == {k \in b : k >= pos - 1}
    IN  IF masked_b = {} THEN -1 ELSE Min(masked_b) + 1

\* A scan that leaves out the offset `pos -= 1`.
find_next_bm_no_offset(b, pos) ==
    LET masked_b == {k \in b : k > pos}
    IN  IF masked_b = {} THEN -1 ELSE Min(masked_b) + 1

\* A scan that returns the 0-based index (lsb.bit_length() - 1).
find_next_bm_zero_based(b, pos) ==
    LET p        == pos - 1
        masked_b == {k \in b : k > p}
    IN  IF masked_b = {} THEN -1 ELSE Min(masked_b)

\* _find_next_bm(b, pos): pos -= 1; masked_b = b & ~((1 << (pos + 1)) - 1)
\* keeps the bits above index pos; -1 if none is left, else the bit length
\* of the lowest one (its index plus one).
find_next_bm(b, pos) ==
    LET p        == pos - 1
        masked_b == {k \in b : k > p}
    IN  IF masked_b = {} THEN -1 ELSE Min(masked_b) + 1

\* A scan that returns the 0-based index (x1.bit_length() - 1).
find_previous_bm_zero_based(b, pos) ==
    LET x1 == {k \in b : k < pos}
    IN  IF x1 = {} THEN -1 ELSE Max(x1)

\* _find_previous_bm(b, pos): x1 = b & ((1 << pos) - 1) keeps the bits below
\* index pos; -1 if none is left, else x1.bit_length() (the index of the
\* highest one plus one).
find_previous_bm(b, pos) ==
    LET x1 == {k \in b : k < pos}
    IN  IF x1 = {} THEN -1 ELSE Max(x1) + 1

\* BitmapCore.find_next(pos) and BitmapCore.find_previous(pos).
BitmapCore_find_next(node, pos) == find_next_bm(node.bitmap, pos)
BitmapCore_find_previous(node, pos) == find_previous_bm(node.bitmap, pos)

-----------------------------------------------------------------------------
(* class LayeredBitmap: go_current, find_next, find_previous, traversals   *)

\* The iteration cap of the ascent and descent loops (range(10)).
LoopCap == 10

\* The value returned when a loop cap is exhausted.
CapSentinel == -100000

\* The loop of go_current() from layer_index on.
RECURSIVE go_current_loop(_, _, _, _, _, _)
go_current_loop(ns, pos, L, target, offset_sofar, layer_index) ==
    IF layer_index >= L
    THEN [outcome |-> "TypeError", target |-> None, curpos |-> 0]
    ELSE
        LET chopper      == Pow(ns[Root].size, L - layer_index - 1)
            pospos       == pos - offset_sofar
            relative_pos == pospos \div chopper
        IN  IF layer_index < L - 1
            THEN IF children_at(ns, target, relative_pos) = None
                 THEN [outcome |-> "ok", target |-> target,
                       curpos |-> relative_pos]
                 ELSE go_current_loop(ns, pos, L,
                                      children_at(ns, target, relative_pos),
                                      offset_sofar + relative_pos * chopper,
                                      layer_index + 1)
            ELSE [outcome |-> "ok", target |-> target, curpos |-> relative_pos]

\* A go_current that hands back no node when the root slot is empty.
go_current_none_at_root(ns, pos, L) ==
    IF pos < 0 \/ pos >= Pow(ns[Root].size, L)
    THEN [outcome |-> "ValueError", target |-> None, curpos |-> 0]
    ELSE
        LET chopper      == Pow(ns[Root].size, L - 1)
            relative_pos == pos \div chopper
        IN  IF children_at(ns, Root, relative_pos) = None
            THEN [outcome |-> "ok", target |-> None, curpos |-> relative_pos]
            ELSE go_current_loop(ns, pos, L,
                                 children_at(ns, Root, relative_pos),
                                 relative_pos * chopper, 1)

\* LayeredBitmap.go_current(pos): the deepest node on the path of pos and
\* the slot of pos in it.  (A loop that ends without a return hands None to
\* the caller's tuple unpacking, a TypeError.)
go_current(ns, pos, L) ==
    IF pos < 0 \/ pos >= Pow(ns[Root].size, L)
    THEN [outcome |-> "ValueError", target |-> None, curpos |-> 0]
    ELSE
        LET chopper      == Pow(ns[Root].size, L - 1)
            relative_pos == pos \div chopper
        IN  IF children_at(ns, Root, relative_pos) = None
            THEN [outcome |-> "ok", target |-> Root, curpos |-> relative_pos]
            ELSE go_current_loop(ns, pos, L,
                                 children_at(ns, Root, relative_pos),
                                 relative_pos * chopper, 1)

Found(ret, i, j) ==
    [outcome |-> "ok", ret |-> ret, ascents |-> i, descents |-> j]

\* The inner loop of find_next (for j in range(10)): from node `child` and
\* its 1-based bit position `ret` down to the leftmost member below it.
RECURSIVE find_next_descend(_, _, _, _, _)
find_next_descend(ns, child, ret, i, j) ==
    IF j >= LoopCap THEN Found(CapSentinel, i, j)
    ELSE
        LET prev_child == child
            c          == children_at(ns, child, ret - 1)
        IN  IF c = None
            THEN Found(ns[prev_child].lower_bound + ret - 1, i, j)
            ELSE find_next_descend(ns, c, BitmapCore_find_next(ns[c], 0),
                                   i, j + 1)

\* An ascent that leaves out `parent = parent.parent`.
RECURSIVE find_next_ascend_stuck(_, _, _, _)
find_next_ascend_stuck(ns, parent, parent_index, i) ==
    IF i >= LoopCap THEN Found(CapSentinel, i, 0)
    ELSE
        LET par == parent
        IN  IF par = None THEN Found(-1, i, 0)
            ELSE
                LET ret == BitmapCore_find_next(ns[par], parent_index + 1)
                IN  IF ret > -1
                    THEN find_next_descend(ns, par, ret, i, 0)
                    ELSE find_next_ascend_stuck(ns, par, ns[par].parent_index,
                                                i + 1)

\* The outer loop of find_next (for i in range(10)): `parent` is the node of
\* the previous iteration, replaced by its own parent when i > 0.
RECURSIVE find_next_ascend(_, _, _, _)
find_next_ascend(ns, parent, parent_index, i) ==
    IF i >= LoopCap THEN Found(CapSentinel, i, 0)
    ELSE
        LET par == IF i > 0 THEN ns[parent].parent ELSE parent
        IN  IF par = None THEN Found(-1, i, 0)
            ELSE
                LET ret == BitmapCore_find_next(ns[par], parent_index + 1)
                IN  IF ret > -1
                    THEN find_next_descend(ns, par, ret, i, 0)
                    ELSE find_next_ascend(ns, par, ns[par].parent_index,
                                          i + 1)

\* LayeredBitmap.find_next(pos).
find_next(ns, pos, L) ==
    LET g == go_current(ns, pos, L)
    IN  IF g.outcome # "ok"
        THEN [outcome |-> g.outcome, ret |-> 0, ascents |-> 0, descents |-> 0]
        ELSE IF g.target = None THEN Found(0, 0, 0)
        ELSE find_next_ascend(ns, g.target, g.curpos, 0)

\* The inner loop of find_previous: down to the rightmost member.
RECURSIVE find_previous_descend(_, _, _, _, _, _)
find_previous_descend(ns, W, child, ret, i, j) ==
    IF j >= LoopCap THEN Found(CapSentinel, i, j)
    ELSE
        LET prev_child == child
            c          == children_at(ns, child, ret - 1)
        IN  IF c = None
            THEN Found(ns[prev_child].lower_bound + ret - 1, i, j)
            ELSE find_previous_descend(ns, W, c,
                                       BitmapCore_find_previous(ns[c], W),
                                       i, j + 1)

\* The outer loop of find_previous.
RECURSIVE find_previous_ascend(_, _, _, _, _)
find_previous_ascend(ns, W, parent, parent_index, i) ==
    IF i >= LoopCap THEN Found(CapSentinel, i, 0)
    ELSE
        LET par == IF i > 0 THEN ns[parent].parent ELSE parent
        IN  IF par = None THEN Found(-1, i, 0)
            ELSE
                LET ret == BitmapCore_find_previous(ns[par], parent_index)
                IN  IF ret > -1
                    THEN find_previous_descend(ns, W, par, ret, i, 0)
                    ELSE find_previous_ascend(ns, W, par,
                                              ns[par].parent_index, i + 1)

\* LayeredBitmap.find_previous(pos).
find_previous(ns, pos, L, W) ==
    LET g == go_current(ns, pos, L)
    IN  IF g.outcome # "ok"
        THEN [outcome |-> g.outcome, ret |-> 0, ascents |-> 0, descents |-> 0]
        ELSE IF g.target = None THEN Found(0, 0, 0)
        ELSE find_previous_ascend(ns, W, g.target, g.curpos, 0)

\* The loop of traverse_forward: i counts the iterations made, ret is the
\* cursor.  A loop that runs out returns None (outcome "None").
RECURSIVE traverse_forward_loop(_, _, _, _, _, _)
traverse_forward_loop(ns, L, num_loops, ret, output, i) ==
    IF i >= num_loops THEN [outcome |-> "None", out |-> <<>>]
    ELSE
        LET r == find_next(ns, ret, L)
        IN  IF r.outcome # "ok" THEN [outcome |-> r.outcome, out |-> <<>>]
            ELSE IF r.ret = -1 THEN [outcome |-> "ok", out |-> output]
            ELSE traverse_forward_loop(ns, L, num_loops, r.ret,
                                       Append(output, r.ret), i + 1)

\* LayeredBitmap.traverse_forward(pos=0).
traverse_forward(ns, pos, L, W) ==
    traverse_forward_loop(ns, L, Pow(W, L), pos, <<>>, 0)

\* The loop of traverse_backward.
RECURSIVE traverse_backward_loop(_, _, _, _, _, _, _)
traverse_backward_loop(ns, L, W, num_loops, ret, output, i) ==
    IF i >= num_loops THEN [outcome |-> "None", out |-> <<>>]
    ELSE
        LET r == find_previous(ns, ret, L, W)
        IN  IF r.outcome # "ok" THEN [outcome |-> r.outcome, out |-> <<>>]
            ELSE IF r.ret = -1 THEN [outcome |-> "ok", out |-> output]
            ELSE traverse_backward_loop(ns, L, W, num_loops, r.ret,
                                        Append(output, r.ret), i + 1)

\* The cursor traverse_backward starts from: ret = pos if pos else
\* num_loops - 1.
traverse_backward_start(pos, num_loops) ==
    IF pos # 0 THEN pos ELSE num_loops - 1

\* LayeredBitmap.traverse_backward(pos=0).
traverse_backward(ns, pos, L, W) ==
    LET num_loops == Pow(W, L)
    IN  traverse_backward_loop(ns, L, W, num_loops,
                               traverse_backward_start(pos, num_loops),
                               <<>>, 0)

-----------------------------------------------------------------------------
(* The calls.  The program is single-threaded: a call is made when the     *)
(* previous one has returned and its result has been taken (Return).       *)

NoCall == [op |-> "none", arg |-> 0, outcome |-> "ok", ret |-> 0,
           out |-> <<>>, created |-> 0, repeat |-> FALSE,
           ascents |-> 0, descents |-> 0]

Call(op, arg, outcome, ret) ==
    [NoCall EXCEPT !.op = op, !.arg = arg, !.outcome = outcome, !.ret = ret]

Init ==
    /\ constructed = FALSE
    /\ num_layers = 0
    /\ bitmap_size = 0
    /\ nodes = <<>>
    /\ S = {}
    /\ last = NoCall

\* LayeredBitmap(num_layers=nl, bitmap_size=size).
Construct(nl, size) ==
    /\ ~constructed
    /\ last = NoCall
    /\ LET o == init_outcome(nl, size)
       IN  /\ last' = Call("init", nl, o, size)
           /\ IF o = "ok"
              THEN /\ constructed' = TRUE
                   /\ num_layers' = nl
                   /\ bitmap_size' = size
                   /\ nodes' = [p \in {Root} |-> BitmapCore(size, nl)]
              ELSE UNCHANGED <<constructed, num_layers, bitmap_size, nodes>>
    /\ UNCHANGED S

\* tree.set(pos).
Set(pos) ==
    /\ constructed
    /\ last = NoCall
    /\ Cardinality(S \cup {pos}) <= MaxMembers
    /\ LET r == set(nodes, pos, num_layers, bitmap_size)
       IN  /\ nodes' = r.nodes
           /\ last' = [Call("set", pos, r.outcome, 0) EXCEPT
                          !.created = r.created, !.repeat = pos \in S]
           /\ S' = IF r.outcome = "ok" THEN S \cup {pos} ELSE S
    /\ UNCHANGED <<constructed, num_layers, bitmap_size>>

\* tree.get(pos).
Get(pos) ==
    /\ constructed
    /\ last = NoCall
    /\ LET r == get(nodes, pos, num_layers)
       IN  last' = Call("get", pos, r.outcome, r.ret)
    /\ UNCHANGED <<constructed, num_layers, bitmap_size, nodes, S>>

\* tree.find_next(pos).
FindNext(pos) ==
    /\ constructed
    /\ last = NoCall
    /\ LET r == find_next(nodes, pos, num_layers)
       IN  last' = [Call("find_next", pos, r.outcome, r.ret) EXCEPT
                       !.ascents = r.ascents, !.descents = r.descents]
    /\ UNCHANGED <<constructed, num_layers, bitmap_size, nodes, S>>

\* tree.find_previous(pos).
FindPrevious(pos) ==
    /\ constructed
    /\ last = NoCall
    /\ LET r == find_previous(nodes, pos, num_layers, bitmap_size)
       IN  last' = [Call("find_previous", pos, r.outcome, r.ret) EXCEPT
                       !.ascents = r.ascents, !.descents = r.descents]
    /\ UNCHANGED <<constructed, num_layers, bitmap_size, nodes, S>>

\* tree.traverse_forward(pos).
TraverseForward(pos) ==
    /\ constructed
    /\ last = NoCall
    /\ LET r == traverse_forward(nodes, pos, num_layers, bitmap_size)
       IN  last' = [Call("traverse_forward", pos, r.outcome, 0) EXCEPT
                       !.out = r.out]
    /\ UNCHANGED <<constructed, num_layers, bitmap_size, nodes, S>>

\* tree.traverse_backward(pos).
TraverseBackward(pos) ==
    /\ constructed
    /\ last = NoCall
    /\ LET r == traverse_backward(nodes, pos, num_layers, bitmap_size)
       IN  last' = [Call("traverse_backward", pos, r.outcome, 0) EXCEPT
                       !.out = r.out]
    /\ UNCHANGED <<constructed, num_layers, bitmap_size, nodes, S>>

\* The caller takes the result of the last call.
Return ==
    /\ last # NoCall
    /\ last' = NoCall
    /\ UNCHANGED <<constructed, num_layers, bitmap_size, nodes, S>>

Next ==
    \/ \E nl \in NumLayersInputs, size \in BitmapSizeInputs : Construct(nl, size)
    \/ \E pos \in SetInputs(bitmap_size, num_layers) : Set(pos)
    \/ \E pos \in QueryInputs(bitmap_size, num_layers) : Get(pos)
    \/ \E pos \in QueryInputs(bitmap_size, num_layers) : FindNext(pos)
    \/ \E pos \in QueryInputs(bitmap_size, num_layers) : FindPrevious(pos)
    \/ \E pos \in TraverseInputs(bitmap_size, num_layers) : TraverseForward(pos)
    \/ \E pos \in TraverseInputs(bitmap_size, num_layers) : TraverseBackward(pos)
    \/ Return

Spec == Init /\ [][Next]_vars

-----------------------------------------------------------------------------
(* A single BitmapCore node around an arbitrary word, and the word-level    *)
(* scans called on it.                                                     *)

\* The words tried have their one bits among the WordEdge lowest and the
\* WordEdge highest indices.
WordEdge == 3

WordBits(W) == (0 .. (WordEdge - 1)) \cup ((W - WordEdge) .. (W - 1))

InitWord ==
    /\ constructed = FALSE
    /\ num_layers \in NumLayersInputs
    /\ bitmap_size \in {32, 64}
    /\ \E b \in SUBSET WordBits(bitmap_size) :
          nodes = [p \in {Root} |-> BitmapCore_word(bitmap_size, num_layers, b)]
    /\ S = {}
    /\ last = NoCall

\* node.find_next(pos).
NodeFindNext(pos) ==
    /\ last = NoCall
    /\ last' = Call("BitmapCore.find_next", pos, "ok",
                    BitmapCore_find_next(nodes[Root], pos))
    /\ UNCHANGED <<constructed, num_layers, bitmap_size, nodes, S>>

\* node.find_previous(pos).
NodeFindPrevious(pos) ==
    /\ last = NoCall
    /\ last' = Call("BitmapCore.find_previous", pos, "ok",
                    BitmapCore_find_previous(nodes[Root], pos))
    /\ UNCHANGED <<constructed, num_layers, bitmap_size, nodes, S>>

NextWord ==
    \/ \E pos \in 0 .. bitmap_size : NodeFindNext(pos)
    \/ \E pos \in 0 .. bitmap_size : NodeFindPrevious(pos)
    \/ Return

SpecWord == InitWord /\ [][NextWord]_vars

-----------------------------------------------------------------------------
(* Properties.                                                             *)

\* The universe size of the tree at hand.
U == Universe(bitmap_size, num_layers)

InRange(x) == x >= 0 /\ x < U

\* The smallest element of T, or -1 if T is empty; the largest, or -1.
MinOrNone(T) == IF T = {} THEN -1 ELSE Min(T)
MaxOrNone(T) == IF T = {} THEN -1 ELSE Max(T)

RECURSIVE Ascending(_)
Ascending(T) == IF T = {} THEN <<>> ELSE <<Min(T)>> \o Ascending(T \ {Min(T)})

RECURSIVE Descending(_)
Descending(T) == IF T = {} THEN <<>> ELSE <<Max(T)>> \o Descending(T \ {Max(T)})

\* The tree as the constructor leaves it.
FreshTree == [p \in {Root} |-> BitmapCore(bitmap_size, num_layers)]

\* C1: get(x) on an in-range x returns 1 if x was inserted and the value 0
\* (never an error) if it was not.
C1_RoundTripMembership ==
    (last.op = "get" /\ InRange(last.arg)) =>
        /\ last.outcome = "ok"
        /\ last.ret = (IF last.arg \in S THEN 1 ELSE 0)

\* C2 as stated: find_next(x) is the smallest member s > x - 1 (that is,
\* s >= x), or -1 if there is none.
C2_SuccessorAtOrAbove ==
    (last.op = "find_next" /\ InRange(last.arg)) =>
        /\ last.outcome = "ok"
        /\ last.ret = MinOrNone({s \in S : s > last.arg - 1})

\* C2 as amended: find_next(x) is the smallest member s > x, or -1 if there
\* is none.
C2_SuccessorStrictlyAbove ==
    (last.op = "find_next" /\ InRange(last.arg)) =>
        /\ last.outcome = "ok"
        /\ last.ret = MinOrNone({s \in S : s > last.arg})

\* find_next was asked for a member that has a larger member above it.
C2_Witness ==
    /\ last.op = "find_next"
    /\ last.arg \in S
    /\ last.ret \in S
    /\ last.ret > last.arg

\* C3: find_previous(x) is the largest member s < x, or -1 if there is none.
C3_PredecessorLaw ==
    (last.op = "find_previous" /\ InRange(last.arg)) =>
        /\ last.outcome = "ok"
        /\ last.ret = MaxOrNone({s \in S : s < last.arg})

\* find_previous started at an interior node (neither the root nor a leaf)
\* whose slot for x is empty, went up two parents and found a member.
C3_Witness ==
    /\ last.op = "find_previous"
    /\ InRange(last.arg)
    /\ LET g == go_current(nodes, last.arg, num_layers)
       IN  /\ nodes[g.target].layer \in 1 .. (num_layers - 2)
           /\ slot_empty(nodes, g.target, g.curpos)
    /\ last.ascents >= 2
    /\ last.ret \in S

\* C4: traverse_forward() with its default start returns the members in
\* ascending order, all of them.
C4_ForwardTraversalIsSortedSet ==
    (last.op = "traverse_forward" /\ last.arg = 0) =>
        /\ last.outcome = "ok"
        /\ last.out = Ascending(S)

\* C5: traverse_backward() with its default start returns the members in
\* descending order, all of them.
C5_BackwardTraversalIsReverseSortedSet ==
    (last.op = "traverse_backward" /\ last.arg = 0) =>
        /\ last.outcome = "ok"
        /\ last.out = Descending(S)

\* C6: find_next(x) never returns x; what it returns is a member above x
\* with no member between x and it, and it returns -1 exactly when no
\* member lies above x.
C6_StrictSuccessorOnMembers ==
    (last.op = "find_next" /\ InRange(last.arg)) =>
        /\ last.outcome = "ok"
        /\ last.ret # last.arg
        /\ (last.ret = -1) <=> (\A s \in S : s <= last.arg)
        /\ (last.ret # -1) =>
              /\ last.ret \in S
              /\ last.ret > last.arg
              /\ \A s \in S : s > last.arg => last.ret <= s

\* find_next was asked for the largest member and answered -1.
C6_Witness ==
    /\ last.op = "find_next"
    /\ S # {}
    /\ last.arg = Max(S)
    /\ last.ret = -1

\* C7 as stated: on a tree on which set was never called, find_next(0)
\* returns 0.
C7_EmptyTreeSentinelZero ==
    (last.op = "find_next" /\ last.arg = 0 /\ nodes = FreshTree) =>
        /\ last.outcome = "ok"
        /\ last.ret = 0

\* C7 as amended: on a tree on which set was never called, find_next(0)
\* returns -1; go_current hands it the root, so the `not target` exit is not
\* taken.
C7_EmptyTreeFindNext ==
    (last.op = "find_next" /\ last.arg = 0 /\ nodes = FreshTree) =>
        /\ last.outcome = "ok"
        /\ last.ret = -1
        /\ go_current(nodes, 0, num_layers).target = Root

\* find_next(0) has returned on a tree on which set was never called.
C7_Witness ==
    /\ last.op = "find_next"
    /\ last.arg = 0
    /\ nodes = FreshTree
    /\ S = {}
    /\ last.ret = -1

\* C8: a set(x) with x < 0 or x >= U ends in ValueError and leaves every
\* node as it was; set(U - 1) succeeds and makes U - 1 a member.
C8_OutOfRangeSetRejected ==
    [][(last'.op = "set") =>
          /\ (~InRange(last'.arg)) =>
                /\ last'.outcome = "ValueError"
                /\ nodes' = nodes
                /\ S' = S
          /\ (last'.arg = U - 1) =>
                /\ last'.outcome = "ok"
                /\ get(nodes', U - 1, num_layers) = [outcome |-> "ok", ret |-> 1]
      ]_vars

\* set(U) was rejected on a tree that holds members.
C8_Witness ==
    /\ last.op = "set"
    /\ last.arg = U
    /\ last.outcome = "ValueError"
    /\ S # {}

\* C9: the constructor returns a tree only for bitmap_size in {32, 64} and
\* 5 <= num_layers <= 8, and raises for every other pair.
C9_ConstructorValidation ==
    /\ (last.op = "init") =>
          ((last.outcome = "ok") <=>
              (last.ret \in {32, 64} /\ last.arg >= 5 /\ last.arg <= 8))
    /\ constructed =>
          (bitmap_size \in {32, 64} /\ num_layers >= 5 /\ num_layers <= 8)

\* C10: set(x) on a position that is a member already leaves every node as
\* it was (bits, child slots, layer, parent, parent_index, lower_bound) and
\* creates no node.
C10_IdempotentInsert ==
    [][(last'.op = "set" /\ last'.arg \in S) =>
          /\ last'.outcome = "ok"
          /\ last'.created = 0
          /\ nodes' = nodes
          /\ S' = S
      ]_vars

\* set was called a second time on a member of a tree with other members.
C10_Witness ==
    /\ last.op = "set"
    /\ last.repeat
    /\ last.outcome = "ok"
    /\ Cardinality(S) >= 2

\* C11: in every node that is not a leaf, a slot that holds a child has its
\* bit set.
C11_ParentBitCoherence ==
    \A p \in DOMAIN nodes :
        nodes[p].layer < num_layers - 1 =>
            \A i \in 0 .. (nodes[p].size - 1) :
                children_at(nodes, p, i) # None => get_bit(nodes[p], i) = 1

\* A set has completed and left a node that is not a leaf with children in
\* two slots.
C11_Witness ==
    /\ last.op = "set"
    /\ last.outcome = "ok"
    /\ \E p \in DOMAIN nodes :
          /\ nodes[p].layer < num_layers - 1
          /\ Cardinality(nodes[p].children) >= 2

\* The sum of d_j * W^(L-1-j) over the digits d_0 .. d_{n-1} of a path
\* (digits[j+1] is d_j).
RECURSIVE DigitSum(_, _, _, _)
DigitSum(digits, n, W, L) ==
    IF n = 0 THEN 0
    ELSE DigitSum(digits, n - 1, W, L) + digits[n] * Pow(W, L - n)

\* C12: a node reached from the root through the child slots d_0 .. d_{d-1}
\* has layer d, parent_index d_{d-1} and lower_bound the sum of
\* d_j * W^(L-1-j); the bits of the leaves, offset by the leaf's lower_bound,
\* are exactly the inserted positions.
C12_LowerBoundArithmetic ==
    /\ \A p \in DOMAIN nodes :
          /\ nodes[p].layer = Len(p)
          /\ p # Root => nodes[p].parent_index = p[Len(p)]
          /\ nodes[p].lower_bound = DigitSum(p, Len(p), bitmap_size, num_layers)
          /\ nodes[p].layer = num_layers - 1 =>
                \A i \in nodes[p].bitmap : nodes[p].lower_bound + i \in S
    /\ \A s \in S :
          \E p \in DOMAIN nodes :
              /\ nodes[p].layer = num_layers - 1
              /\ s - nodes[p].lower_bound \in nodes[p].bitmap

\* A set has completed and left a leaf, reached through two or more
\* non-zero slots, with a bit set.
C12_Witness ==
    /\ last.op = "set"
    /\ last.outcome = "ok"
    /\ \E p \in DOMAIN nodes :
          /\ nodes[p].layer = num_layers - 1
          /\ Cardinality({j \in 1 .. Len(p) : p[j] # 0}) >= 2
          /\ nodes[p].bitmap # {}
          /\ nodes[p].lower_bound > 0

\* The nodes a search visited on its way up (the node it started from
\* included) and on its way down (the node it turned at included): a search
\* that returns -1 left the loop at its i-th iteration without a node.
AscentVisits == IF last.ret = -1 THEN last.ascents ELSE last.ascents + 1
DescentVisits == IF last.ret = -1 THEN 0 ELSE last.descents + 1

\* C13: find_next(x) and find_previous(x) visit at most L nodes on the way
\* up and at most L on the way down, leave both loops before their 10
\* iterations are used up, and never return -100000.
C13_SearchBoundedByDepth ==
    (last.op \in {"find_next", "find_previous"} /\ InRange(last.arg)) =>
        /\ last.outcome = "ok"
        /\ last.ret # CapSentinel
        /\ AscentVisits <= num_layers
        /\ DescentVisits <= num_layers
        /\ last.ascents < LoopCap
        /\ last.descents < LoopCap

\* A search went from a leaf up to the root and from the root down to a
\* leaf: L nodes each way.
C13_Witness ==
    /\ last.op \in {"find_next", "find_previous"}
    /\ last.ret \in S
    /\ last.ascents = num_layers - 1
    /\ last.descents = num_layers - 1

\* C14 as stated: node.find_next(p) is the 1-based position of the lowest
\* one bit whose 1-based position is above p - 1 (0-based index >= p - 1),
\* or -1 if there is none.
C14_WordNextFromPMinusOne ==
    (last.op = "BitmapCore.find_next") =>
        LET T == {k \in nodes[Root].bitmap : k >= last.arg - 1}
        IN  last.ret = (IF T = {} THEN -1 ELSE Min(T) + 1)

\* C14 as amended: node.find_next(p) is the 1-based position of the lowest
\* one bit whose 0-based index is >= p (1-based position above p), or -1 if
\* there is none.
C14_WordNextFromP ==
    (last.op = "BitmapCore.find_next") =>
        LET b == nodes[Root].bitmap
            p == last.arg
        IN  /\ last.ret \in {-1} \cup (1 .. bitmap_size)
            /\ (last.ret = -1) => (\A k \in b : k < p)
            /\ (last.ret # -1) =>
                  /\ (last.ret - 1) \in b
                  /\ last.ret - 1 >= p
                  /\ \A k \in b : k >= p => last.ret - 1 <= k

\* The scan was asked from p on a word whose bit p - 1 is one and found a
\* higher bit.
C14_Witness ==
    /\ last.op = "BitmapCore.find_next"
    /\ last.arg >= 1
    /\ (last.arg - 1) \in nodes[Root].bitmap
    /\ last.ret > last.arg

\* C15: in a node that is not a leaf, a bit is set exactly when its slot
\* holds a child; every node but the root has a bit set; a node of the last
\* layer has no child.  So the scans the descents make on a child,
\* find_next(0) and find_previous(size), find a bit there, and the slot
\* ret - 1 they index next is not negative.
C15_DescentStructure ==
    \A p \in DOMAIN nodes :
        LET n == nodes[p]
        IN  /\ n.layer < num_layers - 1 =>
                  \A i \in 0 .. (n.size - 1) :
                      (get_bit(n, i) = 1) <=> (children_at(nodes, p, i) # None)
            /\ n.layer = num_layers - 1 =>
                  \A i \in 0 .. (n.size - 1) : children_at(nodes, p, i) = None
            /\ p # Root =>
                  /\ n.bitmap # {}
                  /\ BitmapCore_find_next(n, 0) - 1 >= 0
                  /\ BitmapCore_find_previous(n, n.size) - 1 >= 0

\* A search has descended through two or more children to a member.
C15_Witness ==
    /\ last.op \in {"find_next", "find_previous"}
    /\ last.descents >= 2
    /\ last.ret \in S

====
